---- MODULE Spec2Model ----
(***************************************************************************)
(* Model of the query dispatch layer of the Statista context API:          *)
(*   app/server.py            forward_context (the dispatcher)             *)
(*   app/retriever/search.py  ElasticsearchService (plans, normalizer)     *)
(*   app/retriever/embedding.py EmbeddingService.encode_query              *)
(*   app/errors.py            the BaseError hierarchy                      *)
(*   scripts/insert_data.py   the data loader                              *)
(* One request is followed through forward_context step by step (Spec);    *)
(* several requests run concurrently on worker threads (SpecConc); the     *)
(* loader rebuilds the index (SpecLoader).  The embedding model, the       *)
(* Elasticsearch backend and the data file are the environment.            *)
(***************************************************************************)
EXTENDS Integers, Sequences, FiniteSets, TLC

VARIABLES
    es_client,        \* ElasticsearchService.es_client: "client" or None
    pc,               \* position inside forward_context
    request,          \* the QueryRequest being served
    query_embedding,  \* local of forward_context
    encode_outcome,   \* what SentenceTransformer.encode did: "none" | "ok" | "raised"
    query_body,       \* the body handed to es_client.search
    backend_outcome,  \* what es_client.search did: "none" | "ok" | "raised"
    hits,             \* response["hits"]["hits"]
    hit_idx,          \* number of hits the normalizer loop has consumed
    results,          \* local `results` of _execute_search, then its return value
    caught,           \* exception caught at search.py:104 (None if none)
    failed_hit,       \* index of the hit whose processing raised (0 if none)
    escaped,          \* exception that left es_*_search into forward_context
    error,            \* the BaseError raised inside forward_context (None if none)
    http,             \* what the caller receives
    encode_calls,     \* calls of embedding_service.encode_query for this request
    search_calls,     \* calls of es_client.search for this request
    ping_outcome,     \* what es_client.ping() did at construction
    ping_calls,       \* calls of es_client.ping() so far
    raw_search_type,  \* the search_type field of the request body (Omitted if absent)
    probe,            \* the last answer of the /ready endpoint
    unexpected,       \* exception caught at server.py:187 (None if none)
    steps,            \* the steps of forward_context run for this request, in order
    es_index,         \* ElasticsearchService.es_index
    embedding_model,  \* EmbeddingService.model, shared with ElasticsearchService
    sent_index,       \* the index argument of the last es_client.search call (None if none)
    w_pc,             \* per worker thread: position inside forward_context
    w_request,        \* per worker thread: its QueryRequest
    w_embedding,      \* per worker thread: its local query_embedding
    w_reply,          \* per worker thread: what the backend answered to its search
    w_results,        \* per worker thread: its local results
    w_http,           \* per worker thread: what its caller receives
    l_pc,             \* insert_data.py: position inside main
    l_retries,        \* insert_data.py: iterations of wait_for_elasticsearch done
    index_state,      \* the backend's index ES_INDEX
    documents,        \* insert_data.py: local `documents` of main
    l_exit            \* insert_data.py: how main ended

vars == <<es_client, pc, request, query_embedding, encode_outcome, query_body,
          backend_outcome, hits, hit_idx, results, caught, failed_hit, escaped,
          error, http, encode_calls, search_calls, ping_outcome, ping_calls,
          raw_search_type, probe, unexpected, steps, es_index, embedding_model,
          sent_index, w_pc, w_request, w_embedding, w_reply, w_results, w_http,
          l_pc, l_retries, index_state, documents, l_exit>>

\* the fields of the services that are set at construction
svcvars == <<es_client, es_index, embedding_model>>

\* the request that is followed step by step, and the probe
reqvars == <<pc, request, query_embedding, encode_outcome, query_body, backend_outcome,
             hits, hit_idx, results, caught, failed_hit, escaped, error, http,
             encode_calls, search_calls, ping_outcome, ping_calls, raw_search_type,
             probe, unexpected, steps, sent_index>>

\* the locals of the worker threads that run forward_context concurrently
concvars == <<w_pc, w_request, w_embedding, w_reply, w_results, w_http>>

\* the state of the data loader and of the index it writes
loadvars == <<l_pc, l_retries, index_state, documents, l_exit>>

(***************************************************************************)
(* Bounds of the model.                                                    *)
(***************************************************************************)
MaxQueryLen == 2
MaxLimit == 3
NumWorkers == 2
MaxFileDocs == 2

None == "<None>"

(***************************************************************************)
(* app/retriever/constants.py                                              *)
(***************************************************************************)
SEARCH_TYPE_SEMANTIC == "semantic"
SEARCH_TYPE_KEYWORD == "keyword"
SEARCH_TYPE_HYBRID == "hybrid"
DEFAULT_SEARCH_LIMIT == 5
TITLE_WEIGHT == 3
SUBJECT_WEIGHT == 2
MINIMUM_SHOULD_MATCH == "50%"
DEFAULT_NUM_CANDIDATES == 100
HYBRID_KNN_CANDIDATES == 50
HYBRID_BOOST_FACTOR == 2
DEFAULT_ES_INDEX == "statistics"
ES_URL == "http://localhost:9200"

\* app/config.py
EMBEDDING_MODEL == "all-MiniLM-L6-v2"

\* app/server.py: the keys of the SEARCH_TYPES mapping, in insertion order
SEARCH_TYPES == <<SEARCH_TYPE_SEMANTIC, SEARCH_TYPE_KEYWORD, SEARCH_TYPE_HYBRID>>

Range(s) == {s[i] : i \in DOMAIN s}

(***************************************************************************)
(* app/errors.py: class attributes and BaseError.__init__                  *)
(***************************************************************************)
HTTP_400_BAD_REQUEST == 400
HTTP_500_INTERNAL_SERVER_ERROR == 500
HTTP_503_SERVICE_UNAVAILABLE == 503
HTTP_200_OK == 200
HTTP_423_LOCKED == 423

ErrorClasses == {"BaseError", "ConfigurationError", "ElasticsearchError",
                 "ElasticsearchConnectionError", "ElasticsearchQueryError",
                 "SearchError", "InvalidSearchTypeError", "EmptyQueryError",
                 "EmbeddingError", "ModelLoadError", "EmbeddingGenerationError",
                 "DataConversionError"}

\* the class a class inherits its attributes from
Parent(cls) ==
    CASE cls \in {"ElasticsearchConnectionError", "ElasticsearchQueryError"} -> "ElasticsearchError"
      [] cls \in {"InvalidSearchTypeError", "EmptyQueryError"} -> "SearchError"
      [] cls \in {"ModelLoadError", "EmbeddingGenerationError"} -> "EmbeddingError"
      [] OTHER -> "BaseError"

\* status_code as the class body sets it (0: not set, inherited)
\* (variant in which ElasticsearchQueryError does not override its parent's
\* status, to show C15 depends on the override)
OwnStatus_inherited(cls) ==
    CASE cls = "BaseError" -> HTTP_500_INTERNAL_SERVER_ERROR
      [] cls = "ConfigurationError" -> HTTP_500_INTERNAL_SERVER_ERROR
      [] cls = "ElasticsearchError" -> HTTP_503_SERVICE_UNAVAILABLE
      [] cls = "SearchError" -> HTTP_400_BAD_REQUEST
      [] cls = "EmbeddingError" -> HTTP_500_INTERNAL_SERVER_ERROR
      [] cls = "DataConversionError" -> HTTP_500_INTERNAL_SERVER_ERROR
      [] OTHER -> 0
OwnStatus(cls) ==
    CASE cls = "BaseError" -> HTTP_500_INTERNAL_SERVER_ERROR
      [] cls = "ConfigurationError" -> HTTP_500_INTERNAL_SERVER_ERROR
      [] cls = "ElasticsearchError" -> HTTP_503_SERVICE_UNAVAILABLE
      [] cls = "ElasticsearchQueryError" -> HTTP_500_INTERNAL_SERVER_ERROR
      [] cls = "SearchError" -> HTTP_400_BAD_REQUEST
      [] cls = "EmbeddingError" -> HTTP_500_INTERNAL_SERVER_ERROR
      [] cls = "DataConversionError" -> HTTP_500_INTERNAL_SERVER_ERROR
      [] OTHER -> 0

ClassStatus(cls) ==
    IF OwnStatus(cls) # 0 THEN OwnStatus(cls) ELSE OwnStatus(Parent(cls))

ClassDetail(cls) ==
    CASE cls = "BaseError" -> <<"An error occurred">>
      [] cls = "ConfigurationError" -> <<"Configuration error">>
      [] cls = "ElasticsearchError" -> <<"Elasticsearch error">>
      [] cls = "ElasticsearchConnectionError" -> <<"Cannot connect to Elasticsearch">>
      [] cls = "ElasticsearchQueryError" -> <<"Error executing Elasticsearch query">>
      [] cls = "SearchError" -> <<"Search error">>
      [] cls = "InvalidSearchTypeError" -> <<"Invalid search type">>
      [] cls = "EmptyQueryError" -> <<"Query cannot be empty">>
      [] cls = "EmbeddingError" -> <<"Embedding error">>
      [] cls = "ModelLoadError" -> <<"Error loading embedding model">>
      [] cls = "EmbeddingGenerationError" -> <<"Error generating embeddings">>
      [] OTHER -> <<"Data conversion error">>

ClassCode(cls) ==
    CASE cls = "BaseError" -> "internal_error"
      [] cls = "ConfigurationError" -> "configuration_error"
      [] cls = "ElasticsearchError" -> "elasticsearch_error"
      [] cls = "ElasticsearchConnectionError" -> "elasticsearch_connection_error"
      [] cls = "ElasticsearchQueryError" -> "elasticsearch_query_error"
      [] cls = "SearchError" -> "search_error"
      [] cls = "InvalidSearchTypeError" -> "invalid_search_type"
      [] cls = "EmptyQueryError" -> "empty_query"
      [] cls = "EmbeddingError" -> "embedding_error"
      [] cls = "ModelLoadError" -> "model_load_error"
      [] cls = "EmbeddingGenerationError" -> "embedding_generation_error"
      [] OTHER -> "data_conversion_error"

\* Messages are tuples of their pieces (an f-string is the tuple of its
\* parts); a detail of None or "" is <<>>.  A context is a mapping; None and
\* {} are the mapping with the empty domain.
NoDetail == <<>>
NoContext == <<>>

\* BaseError.__init__(detail, status_code, error_code, context):
\* `detail or self.detail`, `context or {}`
BaseError(cls, detail, context) ==
    [cls |-> cls,
     detail |-> IF detail = NoDetail THEN ClassDetail(cls) ELSE detail,
     status_code |-> ClassStatus(cls),
     error_code |-> ClassCode(cls),
     context |-> IF DOMAIN context = {} THEN NoContext ELSE context]

\* InvalidSearchTypeError.__init__(search_type, valid_types)
\* (variant that forgets the context, to show C5 depends on it)
InvalidSearchTypeError_noctx(search_type, valid_types) ==
    BaseError("InvalidSearchTypeError",
              <<"Invalid search type: ", search_type, ". Valid types are: ", valid_types>>,
              NoContext)
InvalidSearchTypeError(search_type, valid_types) ==
    BaseError("InvalidSearchTypeError",
              <<"Invalid search type: ", search_type, ". Valid types are: ", valid_types>>,
              [provided |-> search_type, valid_types |-> valid_types])

\* BaseError.to_http_exception: the HTTPException handed to the framework
\* (variant that always adds the context, to show C14 depends on the test)
to_http_exception_ctx(e) ==
    [status_code |-> e.status_code,
     detail |-> [error_code |-> e.error_code, message |-> e.detail,
                 context |-> e.context]]
to_http_exception(e) ==
    [status_code |-> e.status_code,
     detail |-> IF DOMAIN e.context # {}
                THEN [error_code |-> e.error_code, message |-> e.detail,
                      context |-> e.context]
                ELSE [error_code |-> e.error_code, message |-> e.detail]]

\* an exception that is not a BaseError, and the absence of an exception
Exc(cls, msg) == [cls |-> cls, msg |-> msg]
NoExc == [cls |-> None]
Raised(e) == e.cls # None

\* str(e) of an exception: a BaseError prints its detail, any other its message
str_exc(e) == IF "detail" \in DOMAIN e THEN e.detail ELSE <<e.msg>>

(***************************************************************************)
(* Requests: QueryRequest objects as pydantic lets them through            *)
(* (query of at least one character, 1 <= limit <= 100).                   *)
(***************************************************************************)
Chars == {" ", "a"}
Whitespace == {" "}

RECURSIVE lstrip(_)
lstrip(s) == IF s # <<>> /\ Head(s) \in Whitespace THEN lstrip(Tail(s)) ELSE s

RECURSIVE rstrip(_)
rstrip(s) ==
    IF s # <<>> /\ s[Len(s)] \in Whitespace THEN rstrip(SubSeq(s, 1, Len(s) - 1)) ELSE s

\* str.strip()
\* (variant that removes nothing, to show C4 depends on the trimming)
strip_noop(s) == s
strip(s) == rstrip(lstrip(s))

SeqsUpTo(S, n) == UNION {[1..k -> S] : k \in 0..n}

Queries == SeqsUpTo(Chars, MaxQueryLen) \ {<<>>}
Limits == 1..MaxLimit
SearchTypeValues == Range(SEARCH_TYPES) \cup {"bogus"}

NoRequest == [query |-> <<>>, limit |-> 0, search_type |-> None]

\* QueryRequest(query, limit, search_type): an absent search_type takes the
\* default of views.py:36-41
Omitted == "<omitted>"
QueryRequest(query, limit, search_type) ==
    [query |-> query, limit |-> limit,
     search_type |-> IF search_type = Omitted THEN SEARCH_TYPE_HYBRID ELSE search_type]

(***************************************************************************)
(* app/retriever/embedding.py                                              *)
(***************************************************************************)
\* the vector SentenceTransformer.encode gives for a text (opaque, a
\* function of the text it is given)
ModelEncode(query) == <<"vec", query>>

\* EmbeddingService.encode_query(query); model_raises: whether
\* self.model.encode throws.  Returns [raised, value].
\* (variant that hides the provider's failure, to show C10 depends on it)
encode_query_swallow(query, model_raises) ==
    [raised |-> NoExc, value |-> ModelEncode(query)]
encode_query(query, model_raises) ==
    IF query = <<>> \/ strip(query) = <<>>
    THEN [raised |-> BaseError("EmbeddingGenerationError",
                               <<"Cannot encode empty query">>, NoContext),
          value |-> <<>>]
    ELSE IF model_raises
         THEN [raised |-> BaseError("EmbeddingGenerationError",
                                    <<"Error generating embedding: ", "model failure">>,
                                    NoContext),
               value |-> <<>>]
         ELSE [raised |-> NoExc, value |-> ModelEncode(query)]

(***************************************************************************)
(* app/retriever/search.py: the query plans                                *)
(***************************************************************************)
SourceFields == <<"id", "title", "subject", "description", "link", "date",
                  "teaser_image_url">>

\* ElasticsearchService._get_base_query_body(k)
\* (variant asking for one hit too many, to show C7 depends on size)
_get_base_query_body_oversize(k) == [source |-> SourceFields, size |-> k + 1]
_get_base_query_body(k) == [source |-> SourceFields, size |-> k]

\* the multi_match clause of es_text_search and es_hybrid_search_bool
\* (variant that weighs the three fields alike, to show C23 depends on the
\* weights)
MultiMatch_flat(query) ==
    [multi_match |->
        [query |-> query,
         fields |-> <<<<"title", 1>>, <<"subject", 1>>, <<"description", 1>>>>,
         type |-> "best_fields",
         operator |-> "OR",
         minimum_should_match |-> MINIMUM_SHOULD_MATCH]]
MultiMatch(query) ==
    [multi_match |->
        [query |-> query,
         fields |-> <<<<"title", TITLE_WEIGHT>>, <<"subject", SUBJECT_WEIGHT>>,
                      <<"description", 1>>>>,
         type |-> "best_fields",
         operator |-> "OR",
         minimum_should_match |-> MINIMUM_SHOULD_MATCH]]

\* the body es_text_search builds
TextSearchBody(query, k) ==
    [source |-> _get_base_query_body(k).source,
     size |-> _get_base_query_body(k).size,
     query |-> MultiMatch(query)]

\* the body es_vector_search builds
\* (variant that asks for the hybrid plan's fixed number of neighbours, to
\* show C22 depends on k being the limit)
VectorSearchBody_fixed_k(embedding, k) ==
    [source |-> _get_base_query_body(k).source,
     size |-> _get_base_query_body(k).size,
     knn |-> [field |-> "content_vector", query_vector |-> embedding,
              k |-> HYBRID_KNN_CANDIDATES, num_candidates |-> DEFAULT_NUM_CANDIDATES]]
VectorSearchBody(embedding, k) ==
    [source |-> _get_base_query_body(k).source,
     size |-> _get_base_query_body(k).size,
     knn |-> [field |-> "content_vector", query_vector |-> embedding,
              k |-> k, num_candidates |-> DEFAULT_NUM_CANDIDATES]]

\* the body es_hybrid_search_bool builds
\* (variant whose knn clause asks for as many neighbours as the limit, to
\* show C21 depends on the fixed k)
HybridSearchBody_k_limit(query, embedding, k) ==
    [source |-> _get_base_query_body(k).source,
     size |-> _get_base_query_body(k).size,
     query |-> [bool |-> [should |->
        <<MultiMatch(query),
          [knn |-> [field |-> "content_vector", query_vector |-> embedding,
                    k |-> k,
                    num_candidates |-> DEFAULT_NUM_CANDIDATES,
                    boost |-> HYBRID_BOOST_FACTOR]]>>]]]
HybridSearchBody(query, embedding, k) ==
    [source |-> _get_base_query_body(k).source,
     size |-> _get_base_query_body(k).size,
     query |-> [bool |-> [should |->
        <<MultiMatch(query),
          [knn |-> [field |-> "content_vector", query_vector |-> embedding,
                    k |-> HYBRID_KNN_CANDIDATES,
                    num_candidates |-> DEFAULT_NUM_CANDIDATES,
                    boost |-> HYBRID_BOOST_FACTOR]]>>]]]

\* the branch of forward_context that picks the search (server.py:153-164)
BodyFor(req, embedding) ==
    CASE req.search_type = SEARCH_TYPE_SEMANTIC -> VectorSearchBody(embedding, req.limit)
      [] req.search_type = SEARCH_TYPE_KEYWORD -> TextSearchBody(req.query, req.limit)
      [] OTHER -> HybridSearchBody(req.query, embedding, req.limit)

(***************************************************************************)
(* The backend's replies.  Python values whose type the code inspects are  *)
(* tagged with it: [py |-> "int", v |-> 1], [py |-> "str", v |-> "1"].      *)
(***************************************************************************)
PyInt(n) == [py |-> "int", v |-> n]
PyStr(x) == [py |-> "str", v |-> x]
PyDatetime(x) == [py |-> "datetime", v |-> x]

\* datetime.now()
Now == PyDatetime("now")

WellFormedSource(n, idv, date) ==
    [id |-> idv, title |-> <<"title", n>>, subject |-> <<"subject", n>>,
     description |-> <<"description", n>>, link |-> <<"link", n>>,
     date |-> PyStr(date), teaser_image_url |-> <<"image", n>>]

Without(src, f) == [k \in DOMAIN src \ {f} |-> src[k]]

\* scores are in hundredths: 95 is 0.95
HitPool ==
    {[source |-> WellFormedSource(1, PyInt(1), "2024-01-15T10:00:00Z"), score |-> 95],
     [source |-> WellFormedSource(2, PyStr("2"), "2023-06-01T00:00:00"), score |-> 75],
     [source |-> WellFormedSource(3, PyStr("3"), "not-a-date"), score |-> 60],
     [source |-> Without(WellFormedSource(4, PyStr("4"), "2023-06-01T00:00:00"), "link"),
      score |-> 50],
     [source |-> Without(WellFormedSource(5, PyStr("5"), "2023-06-01T00:00:00"), "date"),
      score |-> 40],
     [source |-> Without(WellFormedSource(6, PyStr("6"), "2023-06-01T00:00:00"), "id"),
      score |-> 30]}

\* es_client.search(index, body): Elasticsearch answers with at most
\* body["size"] hits, in its own ranking order
BackendReplies(body) == SeqsUpTo(HitPool, body.size)

(***************************************************************************)
(* app/retriever/views.py and the normalizer loop of _execute_search       *)
(***************************************************************************)
RequiredFields == {"id", "title", "subject", "description", "link", "date",
                   "teaser_image_url"}

\* str(doc_copy["id"])
\* (variant that leaves the id as it came, to show C16 depends on str())
str_id_keep(x) == x
str_id(x) == IF x.py = "int" THEN PyStr(ToString(x.v)) ELSE x

\* s.replace("Z", "+00:00") on the date strings of the pool
ReplaceZ(s) == IF s = "2024-01-15T10:00:00Z" THEN "2024-01-15T10:00:00+00:00" ELSE s

\* whether datetime.fromisoformat accepts the string
IsIsoFormat(s) == s \in {"2024-01-15T10:00:00+00:00", "2023-06-01T00:00:00"}

\* search.py:90-97: the date conversion with its handler.  [raised, doc_copy]
\* (variant whose handler lets the ValueError out, to show C9 depends on it)
ConvertDate_reraise(doc_copy, now) ==
    IF "date" \notin DOMAIN doc_copy
    THEN [raised |-> Exc("KeyError", "date"), doc_copy |-> doc_copy]
    ELSE IF doc_copy.date.py = "str"
         THEN IF IsIsoFormat(ReplaceZ(doc_copy.date.v))
              THEN [raised |-> NoExc,
                    doc_copy |-> [doc_copy EXCEPT !.date = PyDatetime(ReplaceZ(@.v))]]
              ELSE [raised |-> Exc("ValueError", "Invalid isoformat string"),
                    doc_copy |-> doc_copy]
         ELSE [raised |-> NoExc, doc_copy |-> doc_copy]
ConvertDate(doc_copy, now) ==
    IF "date" \notin DOMAIN doc_copy
    THEN \* KeyError at line 91, and again in the handler at line 96
         [raised |-> Exc("KeyError", "date"), doc_copy |-> doc_copy]
    ELSE IF doc_copy.date.py = "str"
         THEN IF IsIsoFormat(ReplaceZ(doc_copy.date.v))
              THEN [raised |-> NoExc,
                    doc_copy |-> [doc_copy EXCEPT !.date = PyDatetime(ReplaceZ(@.v))]]
              ELSE \* ValueError, handled: warning, date = datetime.now()
                   [raised |-> NoExc, doc_copy |-> [doc_copy EXCEPT !.date = now]]
         ELSE [raised |-> NoExc, doc_copy |-> doc_copy]

NoDoc == [id |-> PyStr(None)]

\* Document(**kwargs): pydantic requires every field but similarity_score
Document(kwargs) ==
    IF RequiredFields \subseteq DOMAIN kwargs
    THEN [raised |-> NoExc,
          doc |-> [id |-> kwargs.id, title |-> kwargs.title, subject |-> kwargs.subject,
                   description |-> kwargs.description, link |-> kwargs.link,
                   date |-> kwargs.date, teaser_image_url |-> kwargs.teaser_image_url,
                   similarity_score |-> kwargs.similarity_score]]
    ELSE [raised |-> Exc("ValidationError", "Field required"), doc |-> NoDoc]

\* float(score)
float(score) == score

\* search.py:85-100: one iteration of the loop.  [raised, doc]
\* (variant that gives a hit without a date the current time, to show C25
\* depends on the second KeyError)
NormalizeHit_default_date(hit, now) ==
    LET source == hit.source
        score == hit.score
    IN  IF "id" \notin DOMAIN source
        THEN [raised |-> Exc("KeyError", "id"), doc |-> NoDoc]
        ELSE LET doc_copy == [source EXCEPT !.id = str_id(@)]
                 dated == IF "date" \in DOMAIN doc_copy
                          THEN ConvertDate(doc_copy, now)
                          ELSE [raised |-> NoExc, doc_copy |-> ("date" :> now) @@ doc_copy]
             IN  IF Raised(dated.raised)
                 THEN [raised |-> dated.raised, doc |-> NoDoc]
                 ELSE Document(("similarity_score" :> float(score)) @@ dated.doc_copy)
NormalizeHit(hit, now) ==
    LET source == hit.source
        score == hit.score
    IN  IF "id" \notin DOMAIN source
        THEN [raised |-> Exc("KeyError", "id"), doc |-> NoDoc]
        ELSE LET doc_copy == [source EXCEPT !.id = str_id(@)]
                 dated == ConvertDate(doc_copy, now)
             IN  IF Raised(dated.raised)
                 THEN [raised |-> dated.raised, doc |-> NoDoc]
                 ELSE Document(("similarity_score" :> float(score)) @@ dated.doc_copy)

\* results.append(...)
\* (variant that prepends, to show C6 depends on the order of appends)
AppendResult_front(rs, doc) == <<doc>> \o rs
AppendResult(rs, doc) == Append(rs, doc)

\* search.py:104-106: `except Exception` logs and returns [], nothing leaves
_execute_search_except(e) == [returns |-> <<>>, raises |-> NoExc]

\* ElasticsearchService.__init__: the client is kept iff ping() returned True
\* (variant that keeps the client unless ping() raised, to show C19 depends
\* on the test of ping's result)
ElasticsearchService_init_unless_raise(ping) == IF ping # "raise" THEN "client" ELSE None
ElasticsearchService_init(ping) == IF ping = "true" THEN "client" ELSE None

\* ElasticsearchService.is_ready
\* (variant that always reports ready, to show C3 depends on the test)
is_ready_always(client) == TRUE
is_ready(client) == client # None

(***************************************************************************)
(* State                                                                   *)
(***************************************************************************)
NoError == [cls |-> None]
NoHttp == [status_code |-> 0]
NoBody == [size |-> 0]

\* the locals of one call of forward_context, before it starts
Fresh ==
    /\ query_embedding = <<>>
    /\ encode_outcome = "none"
    /\ query_body = NoBody
    /\ backend_outcome = "none"
    /\ hits = <<>>
    /\ hit_idx = 0
    /\ results = <<>>
    /\ caught = NoExc
    /\ failed_hit = 0
    /\ escaped = NoExc
    /\ error = NoError
    /\ http = NoHttp
    /\ encode_calls = 0
    /\ search_calls = 0
    /\ raw_search_type = Omitted
    /\ unexpected = NoExc
    /\ steps = <<>>
    /\ sent_index = None

\* the worker threads of the server's thread pool
Workers == 1..NumWorkers

NoReply == [outcome |-> "none", hits |-> <<>>]

\* no worker thread is running forward_context
WorkersIdle ==
    /\ w_pc = [w \in Workers |-> "idle"]
    /\ w_request = [w \in Workers |-> NoRequest]
    /\ w_embedding = [w \in Workers |-> <<>>]
    /\ w_reply = [w \in Workers |-> NoReply]
    /\ w_results = [w \in Workers |-> <<>>]
    /\ w_http = [w \in Workers |-> NoHttp]

\* the index as the backend holds it: whether it exists, whether this run of
\* the loader created it, the ids of its documents, and the ids of the
\* documents that went with an index the loader deleted
NoIndex == [exists |-> FALSE, fresh |-> FALSE, docs |-> {}, lost |-> {}]

\* scripts/insert_data.py has not been started
LoaderOff ==
    /\ l_pc = "off"
    /\ l_retries = 0
    /\ index_state = NoIndex
    /\ documents = <<>>
    /\ l_exit = "none"

\* server.py:86-88: the services are built once, at import
Init ==
    /\ \E ping \in {"true", "false", "raise"} :
          /\ ping_outcome = ping
          /\ es_client = ElasticsearchService_init(ping)
    /\ ping_calls = 1
    /\ probe = NoHttp
    /\ es_index = DEFAULT_ES_INDEX
    /\ embedding_model = EMBEDDING_MODEL
    /\ pc = "idle"
    /\ request = NoRequest
    /\ Fresh
    /\ WorkersIdle
    /\ LoaderOff

\* a request reaches forward_context
Receive(q, st, lim) ==
    /\ pc = "idle"
    /\ pc' = "received"
    /\ request' = QueryRequest(q, lim, st)
    /\ query_embedding' = <<>>
    /\ encode_outcome' = "none"
    /\ query_body' = NoBody
    /\ backend_outcome' = "none"
    /\ hits' = <<>>
    /\ hit_idx' = 0
    /\ results' = <<>>
    /\ caught' = NoExc
    /\ failed_hit' = 0
    /\ escaped' = NoExc
    /\ error' = NoError
    /\ http' = NoHttp
    /\ encode_calls' = 0
    /\ search_calls' = 0
    /\ raw_search_type' = st
    /\ unexpected' = NoExc
    /\ steps' = <<>>
    /\ sent_index' = None
    /\ UNCHANGED <<svcvars, concvars, loadvars, ping_outcome, ping_calls, probe>>

\* server.py:185-186: a BaseError raised inside the try leaves as
\* e.to_http_exception()
RaiseBaseError(e) ==
    /\ error' = e
    /\ http' = to_http_exception(e)
    /\ pc' = "done"

\* server.py:127-128
CheckQuery ==
    /\ pc = "received"
    /\ IF strip(request.query) = <<>>
       THEN RaiseBaseError(BaseError("EmptyQueryError", NoDetail, NoContext))
       ELSE pc' = "query_checked" /\ UNCHANGED <<error, http>>
    /\ steps' = Append(steps, "empty_query_check")
    /\ UNCHANGED <<svcvars, concvars, loadvars, sent_index, ping_outcome, ping_calls,
                   raw_search_type, probe, unexpected,
                   request, query_embedding, encode_outcome, query_body,
                   backend_outcome, hits, hit_idx, results, caught, failed_hit,
                   escaped, encode_calls, search_calls>>

\* server.py:130-134
CheckSearchType ==
    /\ pc = "query_checked"
    /\ IF request.search_type \notin Range(SEARCH_TYPES)
       THEN RaiseBaseError(InvalidSearchTypeError(request.search_type, SEARCH_TYPES))
       ELSE pc' = "type_checked" /\ UNCHANGED <<error, http>>
    /\ steps' = Append(steps, "search_type_check")
    /\ UNCHANGED <<svcvars, concvars, loadvars, sent_index, ping_outcome, ping_calls,
                   raw_search_type, probe, unexpected,
                   request, query_embedding, encode_outcome, query_body,
                   backend_outcome, hits, hit_idx, results, caught, failed_hit,
                   escaped, encode_calls, search_calls>>

\* server.py:137-138
CheckReady ==
    /\ pc = "type_checked"
    /\ IF ~is_ready(es_client)
       THEN RaiseBaseError(BaseError("ElasticsearchConnectionError",
                                     <<"Elasticsearch is not available at ", ES_URL>>,
                                     NoContext))
       ELSE pc' = "ready_checked" /\ UNCHANGED <<error, http>>
    /\ steps' = Append(steps, "readiness_check")
    /\ UNCHANGED <<svcvars, concvars, loadvars, sent_index, ping_outcome, ping_calls,
                   raw_search_type, probe, unexpected,
                   request, query_embedding, encode_outcome, query_body,
                   backend_outcome, hits, hit_idx, results, caught, failed_hit,
                   escaped, encode_calls, search_calls>>

\* server.py:145-149: the embedding is computed whatever the search type
EncodeQuery ==
    /\ pc = "ready_checked"
    /\ \E model_raises \in BOOLEAN :
          LET r == encode_query(request.query, model_raises)
          IN  /\ encode_outcome' = IF model_raises THEN "raised" ELSE "ok"
              /\ IF Raised(r.raised)
                 THEN /\ RaiseBaseError(BaseError("EmbeddingGenerationError",
                                           <<"Error encoding query: ">> \o str_exc(r.raised),
                                           NoContext))
                      /\ UNCHANGED query_embedding
                 ELSE /\ query_embedding' = r.value
                      /\ pc' = "encoded"
                      /\ UNCHANGED <<error, http>>
    /\ encode_calls' = encode_calls + 1
    /\ steps' = Append(steps, "embedding")
    /\ UNCHANGED <<svcvars, concvars, loadvars, sent_index, ping_outcome, ping_calls,
                   raw_search_type, probe, unexpected,
                   request, query_body, backend_outcome, hits, hit_idx,
                   results, caught, failed_hit, escaped, search_calls>>

\* server.py:153-164 into es_*_search and _execute_search up to line 80:
\* the body is built and es_client.search is called; the backend answers
\* or raises (search.py:104-106 then returns [])
ExecuteSearch ==
    /\ pc = "encoded"
    /\ query_body' = BodyFor(request, query_embedding)
    /\ IF es_client = None
       THEN \* search.py:75-77
            /\ pc' = "searched"
            /\ steps' = Append(steps, "query_plan")
            /\ UNCHANGED <<backend_outcome, hits, results, caught, escaped, search_calls,
                           sent_index>>
       ELSE /\ search_calls' = search_calls + 1
            /\ sent_index' = es_index
            /\ steps' = steps \o <<"query_plan", "backend_call">>
            /\ \/ /\ backend_outcome' = "raised"
                  /\ caught' = Exc("ConnectionTimeout", "backend failure")
                  /\ results' = _execute_search_except(caught').returns
                  /\ escaped' = _execute_search_except(caught').raises
                  /\ pc' = "searched"
                  /\ UNCHANGED hits
               \/ /\ backend_outcome' = "ok"
                  /\ hits' \in BackendReplies(query_body')
                  /\ pc' = "normalizing"
                  /\ UNCHANGED <<results, caught, escaped>>
    /\ UNCHANGED <<svcvars, concvars, loadvars, ping_outcome, ping_calls, raw_search_type,
                   probe, unexpected, request, query_embedding, encode_outcome, hit_idx,
                   failed_hit, error, http, encode_calls>>

\* search.py:84-100: one iteration of the loop over the hits
ProcessHit ==
    /\ pc = "normalizing"
    /\ hit_idx < Len(hits)
    /\ steps' = IF hit_idx = 0 THEN Append(steps, "normalization") ELSE steps
    /\ LET r == NormalizeHit(hits[hit_idx + 1], Now)
       IN  IF Raised(r.raised)
           THEN /\ caught' = r.raised
                /\ failed_hit' = hit_idx + 1
                /\ results' = _execute_search_except(r.raised).returns
                /\ escaped' = _execute_search_except(r.raised).raises
                /\ pc' = "searched"
                /\ UNCHANGED hit_idx
           ELSE /\ results' = AppendResult(results, r.doc)
                /\ hit_idx' = hit_idx + 1
                /\ UNCHANGED <<caught, failed_hit, escaped, pc>>
    /\ UNCHANGED <<svcvars, concvars, loadvars, sent_index, ping_outcome, ping_calls,
                   raw_search_type, probe, unexpected,
                   request, query_embedding, encode_outcome, query_body,
                   backend_outcome, hits, error, http, encode_calls, search_calls>>

\* search.py:102
ReturnResults ==
    /\ pc = "normalizing"
    /\ hit_idx = Len(hits)
    /\ pc' = "searched"
    /\ steps' = IF hits = <<>> THEN Append(steps, "normalization") ELSE steps
    /\ UNCHANGED <<svcvars, concvars, loadvars, sent_index, ping_outcome, ping_calls,
                   raw_search_type, probe, unexpected,
                   request, query_embedding, encode_outcome, query_body,
                   backend_outcome, hits, hit_idx, results, caught, failed_hit,
                   escaped, error, http, encode_calls, search_calls>>

\* QueryResponse(...) of server.py:176-183 (timestamp and timing left out)
\* (variant that labels every response with the default type, to show C11
\* depends on the echo)
QueryResponse_default(rs, req) ==
    [results |-> rs, query |-> req.query, search_type |-> SEARCH_TYPE_HYBRID,
     search_engine |-> "elasticsearch"]
QueryResponse(rs, req) ==
    [results |-> rs, query |-> req.query, search_type |-> req.search_type,
     search_engine |-> "elasticsearch"]

\* server.py:165-183: an exception out of the search becomes
\* ElasticsearchQueryError, otherwise the response is built
\* (variant that treats an empty result list as a failed search, to show C12
\* depends on the empty list being returned as a success)
Respond_empty_is_error ==
    /\ pc = "searched"
    /\ IF Raised(escaped) \/ results = <<>>
       THEN /\ RaiseBaseError(BaseError("ElasticsearchQueryError",
                                <<"Error executing search: ">>, NoContext))
            /\ UNCHANGED steps
       ELSE /\ http' = [status_code |-> HTTP_200_OK,
                        content |-> QueryResponse(results, request)]
            /\ pc' = "done"
            /\ steps' = Append(steps, "return")
            /\ UNCHANGED error
    /\ UNCHANGED <<svcvars, concvars, loadvars, sent_index, ping_outcome, ping_calls,
                   raw_search_type, probe, unexpected,
                   request, query_embedding, encode_outcome, query_body,
                   backend_outcome, hits, hit_idx, results, caught, failed_hit,
                   escaped, encode_calls, search_calls>>
Respond ==
    /\ pc = "searched"
    /\ IF Raised(escaped)
       THEN /\ RaiseBaseError(BaseError("ElasticsearchQueryError",
                                <<"Error executing search: ">> \o str_exc(escaped),
                                NoContext))
            /\ UNCHANGED steps
       ELSE /\ http' = [status_code |-> HTTP_200_OK,
                        content |-> QueryResponse(results, request)]
            /\ pc' = "done"
            /\ steps' = Append(steps, "return")
            /\ UNCHANGED error
    /\ UNCHANGED <<svcvars, concvars, loadvars, sent_index, ping_outcome, ping_calls,
                   raw_search_type, probe, unexpected,
                   request, query_embedding, encode_outcome, query_body,
                   backend_outcome, hits, hit_idx, results, caught, failed_hit,
                   escaped, encode_calls, search_calls>>

\* server.py:186 and 189: the body FastAPI sends for a raised HTTPException
\* is its detail under the key "detail"
http_exception_body(h) == [detail |-> h.detail]

\* forward_context has returned or raised: its locals are gone and the
\* worker is free for the next request
Complete ==
    /\ pc = "done"
    /\ pc' = "idle"
    /\ request' = NoRequest
    /\ query_embedding' = <<>>
    /\ encode_outcome' = "none"
    /\ query_body' = NoBody
    /\ backend_outcome' = "none"
    /\ hits' = <<>>
    /\ hit_idx' = 0
    /\ results' = <<>>
    /\ caught' = NoExc
    /\ failed_hit' = 0
    /\ escaped' = NoExc
    /\ error' = NoError
    /\ http' = NoHttp
    /\ encode_calls' = 0
    /\ search_calls' = 0
    /\ raw_search_type' = Omitted
    /\ unexpected' = NoExc
    /\ steps' = <<>>
    /\ sent_index' = None
    /\ UNCHANGED <<svcvars, concvars, loadvars, ping_outcome, ping_calls, probe>>

\* server.py:198-219: the /ready endpoint (is_ready is an attribute test and
\* cannot raise, so the handler of lines 220-229 is never entered)
\* (variant that answers 200 whatever the client, to show C17 depends on the
\* test)
ready_always_ok(client) ==
    [status_code |-> HTTP_200_OK,
     content |-> [status |-> "ok", message |-> "Service is ready"]]
ready(client) ==
    IF is_ready(client)
    THEN [status_code |-> HTTP_200_OK,
          content |-> [status |-> "ok", message |-> "Service is ready"]]
    ELSE [status_code |-> HTTP_423_LOCKED,
          content |-> [status |-> "not_ready", message |-> "Service is starting up"]]

\* GET /ready, at any moment
ReadyProbe ==
    /\ probe' = ready(es_client)
    /\ UNCHANGED <<svcvars, concvars, loadvars, sent_index, pc, request, query_embedding, encode_outcome, query_body,
                   backend_outcome, hits, hit_idx, results, caught, failed_hit, escaped,
                   error, http, encode_calls, search_calls, ping_outcome, ping_calls,
                   raw_search_type, unexpected, steps>>

\* server.py:187-189: an exception that is not a BaseError, raised while the
\* response is built (server.py:170-183), leaves as HTTPException(500, str(e))
UnexpectedFailure ==
    /\ pc = "searched"
    /\ ~Raised(escaped)
    /\ \E e \in {Exc("ValidationError", "results.0: Input should be a valid dictionary"),
                 Exc("RuntimeError", "internal detail")} :
          /\ unexpected' = e
          /\ http' = [status_code |-> HTTP_500_INTERNAL_SERVER_ERROR,
                      detail |-> str_exc(e)]
    /\ pc' = "done"
    /\ UNCHANGED <<svcvars, concvars, loadvars, sent_index, request, query_embedding, encode_outcome, query_body,
                   backend_outcome, hits, hit_idx, results, caught, failed_hit, escaped,
                   error, encode_calls, search_calls, ping_outcome, ping_calls,
                   raw_search_type, probe, steps>>

Next ==
    \/ \E q \in Queries, st \in SearchTypeValues \cup {Omitted}, lim \in Limits :
          Receive(q, st, lim)
    \/ CheckQuery
    \/ CheckSearchType
    \/ CheckReady
    \/ EncodeQuery
    \/ ExecuteSearch
    \/ ProcessHit
    \/ ReturnResults
    \/ Respond
    \/ Complete
    \/ ReadyProbe

Spec == Init /\ [][Next]_vars

\* the same service when building the response may fail unexpectedly
NextFault == Next \/ UnexpectedFailure

SpecFault == Init /\ [][NextFault]_vars

(***************************************************************************)
(* Concurrent requests.  forward_context is a plain `def`, so FastAPI runs *)
(* each request on a thread of its pool: the threads share the two         *)
(* services and nothing else, and their steps interleave freely.           *)
(***************************************************************************)
\* the requests and hits the concurrent workers draw from
ConcRequests ==
    {QueryRequest(q, 1, st) : q \in {<<"a">>, <<" ", "a">>},
                              st \in {SEARCH_TYPE_SEMANTIC, SEARCH_TYPE_KEYWORD}}
ConcHitPool == {h \in HitPool : h.score \in {95, 50}}
ConcReplies(body) == SeqsUpTo(ConcHitPool, body.size)

\* search.py:83-106: the loop over the hits of one reply, as a whole
RECURSIVE NormalizeAll(_, _, _)
NormalizeAll(hs, now, acc) ==
    IF hs = <<>>
    THEN acc
    ELSE LET r == NormalizeHit(Head(hs), now)
         IN  IF Raised(r.raised)
             THEN _execute_search_except(r.raised).returns
             ELSE NormalizeAll(Tail(hs), now, AppendResult(acc, r.doc))

\* server.py:185-186 for a worker
WorkerRaise(w, e) ==
    /\ w_http' = [w_http EXCEPT ![w] = to_http_exception(e)]
    /\ w_pc' = [w_pc EXCEPT ![w] = "done"]

\* a request reaches forward_context on the thread w
WReceive(w, req) ==
    /\ w_pc[w] = "idle"
    /\ w_pc' = [w_pc EXCEPT ![w] = "received"]
    /\ w_request' = [w_request EXCEPT ![w] = req]
    /\ UNCHANGED <<svcvars, reqvars, loadvars, w_embedding, w_reply, w_results, w_http>>

\* server.py:127-138: the three checks
WValidate(w) ==
    /\ w_pc[w] = "received"
    /\ IF strip(w_request[w].query) = <<>>
       THEN WorkerRaise(w, BaseError("EmptyQueryError", NoDetail, NoContext))
       ELSE IF w_request[w].search_type \notin Range(SEARCH_TYPES)
       THEN WorkerRaise(w, InvalidSearchTypeError(w_request[w].search_type, SEARCH_TYPES))
       ELSE IF ~is_ready(es_client)
       THEN WorkerRaise(w, BaseError("ElasticsearchConnectionError",
                                     <<"Elasticsearch is not available at ", ES_URL>>,
                                     NoContext))
       ELSE w_pc' = [w_pc EXCEPT ![w] = "validated"] /\ UNCHANGED w_http
    /\ UNCHANGED <<svcvars, reqvars, loadvars, w_request, w_embedding, w_reply, w_results>>

\* server.py:145-149: the shared model is read, not written
WEncode(w) ==
    /\ w_pc[w] = "validated"
    /\ \E model_raises \in BOOLEAN :
          LET r == encode_query(w_request[w].query, model_raises)
          IN  IF Raised(r.raised)
              THEN /\ WorkerRaise(w, BaseError("EmbeddingGenerationError",
                                     <<"Error encoding query: ">> \o str_exc(r.raised),
                                     NoContext))
                   /\ UNCHANGED w_embedding
              ELSE /\ w_embedding' = [w_embedding EXCEPT ![w] = r.value]
                   /\ w_pc' = [w_pc EXCEPT ![w] = "encoded"]
                   /\ UNCHANGED w_http
    /\ UNCHANGED <<svcvars, reqvars, loadvars, w_request, w_reply, w_results>>

\* server.py:153-164 and search.py:75-80: the plan is built from the thread's
\* own request and embedding and sent through the shared client
WSearch(w) ==
    /\ w_pc[w] = "encoded"
    /\ IF es_client = None
       THEN UNCHANGED w_reply
       ELSE \/ w_reply' = [w_reply EXCEPT ![w] = [outcome |-> "raised", hits |-> <<>>]]
            \/ \E hs \in ConcReplies(BodyFor(w_request[w], w_embedding[w])) :
                  w_reply' = [w_reply EXCEPT ![w] = [outcome |-> "ok", hits |-> hs]]
    /\ w_pc' = [w_pc EXCEPT ![w] = "replied"]
    /\ UNCHANGED <<svcvars, reqvars, loadvars, w_request, w_embedding, w_results, w_http>>

\* search.py:83-106
WNormalize(w) ==
    /\ w_pc[w] = "replied"
    /\ w_results' = [w_results EXCEPT ![w] =
                        IF w_reply[w].outcome = "ok"
                        THEN NormalizeAll(w_reply[w].hits, Now, <<>>)
                        ELSE <<>>]
    /\ w_pc' = [w_pc EXCEPT ![w] = "searched"]
    /\ UNCHANGED <<svcvars, reqvars, loadvars, w_request, w_embedding, w_reply, w_http>>

\* server.py:176-183
\* (variant that builds the response from the request of the next thread, as
\* if the request were kept in a slot the threads share, to show C24
\* depends on the request being a local)
WRespond_shared(w) ==
    /\ w_pc[w] = "searched"
    /\ w_http' = [w_http EXCEPT ![w] =
                     [status_code |-> HTTP_200_OK,
                      content |-> QueryResponse(w_results[w],
                                                w_request[(w % NumWorkers) + 1])]]
    /\ w_pc' = [w_pc EXCEPT ![w] = "done"]
    /\ UNCHANGED <<svcvars, reqvars, loadvars, w_request, w_embedding, w_reply, w_results>>
WRespond(w) ==
    /\ w_pc[w] = "searched"
    /\ w_http' = [w_http EXCEPT ![w] =
                     [status_code |-> HTTP_200_OK,
                      content |-> QueryResponse(w_results[w], w_request[w])]]
    /\ w_pc' = [w_pc EXCEPT ![w] = "done"]
    /\ UNCHANGED <<svcvars, reqvars, loadvars, w_request, w_embedding, w_reply, w_results>>

\* forward_context has returned on the thread w
WComplete(w) ==
    /\ w_pc[w] = "done"
    /\ w_pc' = [w_pc EXCEPT ![w] = "idle"]
    /\ w_request' = [w_request EXCEPT ![w] = NoRequest]
    /\ w_embedding' = [w_embedding EXCEPT ![w] = <<>>]
    /\ w_reply' = [w_reply EXCEPT ![w] = NoReply]
    /\ w_results' = [w_results EXCEPT ![w] = <<>>]
    /\ w_http' = [w_http EXCEPT ![w] = NoHttp]
    /\ UNCHANGED <<svcvars, reqvars, loadvars>>

\* search.py:43-57 with the environment's ELASTICSEARCH_INDEX set or not
InitConc ==
    /\ \E ping \in {"true", "false", "raise"} :
          /\ ping_outcome = ping
          /\ es_client = ElasticsearchService_init(ping)
    /\ ping_calls = 1
    /\ probe = NoHttp
    /\ es_index \in {DEFAULT_ES_INDEX, "statistics-test"}
    /\ embedding_model = EMBEDDING_MODEL
    /\ pc = "idle"
    /\ request = NoRequest
    /\ Fresh
    /\ WorkersIdle
    /\ LoaderOff

NextConc ==
    \/ \E w \in Workers, req \in ConcRequests : WReceive(w, req)
    \/ \E w \in Workers : WValidate(w)
    \/ \E w \in Workers : WEncode(w)
    \/ \E w \in Workers : WSearch(w)
    \/ \E w \in Workers : WNormalize(w)
    \/ \E w \in Workers : WRespond(w)
    \/ \E w \in Workers : WComplete(w)

SpecConc == InitConc /\ [][NextConc]_vars

(***************************************************************************)
(* scripts/insert_data.py: the data loader.  The backend and the data file *)
(* are the environment.                                                    *)
(***************************************************************************)
\* wait_for_elasticsearch(es_client, max_retries=10, delay=5)
max_retries == 10

\* the documents an index left by an earlier run may hold
OldDocs == {"old-1", "old-2"}

\* the index as main may find it
PriorIndexes ==
    {NoIndex} \cup {[exists |-> TRUE, fresh |-> FALSE, docs |-> D, lost |-> {}] :
                       D \in SUBSET OldDocs}

\* es_client.indices.delete(index=ES_INDEX): the documents go with the index
indices_delete(idx) ==
    [exists |-> FALSE, fresh |-> FALSE, docs |-> {}, lost |-> idx.lost \cup idx.docs]

\* es_client.indices.create(index=ES_INDEX, body=index_settings)
indices_create(idx) ==
    [exists |-> TRUE, fresh |-> TRUE, docs |-> {}, lost |-> idx.lost]

\* create_index(es_client), insert_data.py:69-75
\* (variant that keeps an index that exists, to show C26 depends on the
\* deletion)
create_index_if_absent(idx) == IF idx.exists THEN idx ELSE indices_create(idx)
create_index(idx) == indices_create(IF idx.exists THEN indices_delete(idx) ELSE idx)

\* the documents a data file may hold; the third lacks its title
FileDoc(n) ==
    [id |-> <<"doc", n>>, title |-> <<"title", n>>, subject |-> <<"subject", n>>,
     description |-> <<"description", n>>, date |-> "2023-06-01T00:00:00"]
FileDocPool == {FileDoc(1), FileDoc(2), Without(FileDoc(3), "title")}

\* DATA_PATH: no file, a file that is not JSON, or a JSON list of documents
Files ==
    {[kind |-> "missing"], [kind |-> "malformed"]}
        \cup {[kind |-> "json", data |-> d] : d \in SeqsUpTo(FileDocPool, MaxFileDocs)}

\* load_data(file_path), insert_data.py:78-87: any exception gives []
load_data(file) == IF file.kind = "json" THEN file.data ELSE <<>>

\* insert_data.py:119-152: the ids of the documents an action is prepared for
Prepared(docs) ==
    {docs[i].id : i \in {j \in DOMAIN docs :
                            {"title", "subject", "description", "id"} \subseteq DOMAIN docs[j]}}

\* main ends
Exit(how) ==
    /\ l_pc' = "exited"
    /\ l_exit' = how

\* insert_data.py:189-190: main starts against whatever the backend holds
LoaderStart ==
    /\ l_pc = "off"
    /\ l_pc' = "waiting"
    /\ index_state' \in PriorIndexes
    /\ UNCHANGED <<svcvars, reqvars, concvars, l_retries, documents, l_exit>>

\* insert_data.py:28-37: one iteration of the loop of wait_for_elasticsearch
WaitPing ==
    /\ l_pc = "waiting"
    /\ l_retries < max_retries
    /\ \/ \* ping() is True
          /\ l_pc' = "create_index"
          /\ UNCHANGED <<l_retries, l_exit>>
       \/ \* ping() is False, or raises ConnectionError
          /\ l_retries' = l_retries + 1
          /\ UNCHANGED <<l_pc, l_exit>>
       \/ \* ping() raises something else, which nothing catches
          /\ Exit("crashed")
          /\ UNCHANGED l_retries
    /\ UNCHANGED <<svcvars, reqvars, concvars, index_state, documents>>

\* insert_data.py:39-40 and 192-194
WaitGiveUp ==
    /\ l_pc = "waiting"
    /\ l_retries = max_retries
    /\ Exit("unavailable")
    /\ UNCHANGED <<svcvars, reqvars, concvars, l_retries, index_state, documents>>

\* insert_data.py:196: create_index returns, or one of its backend calls
\* raises and main dies with the index as the calls before it left it
CreateIndex ==
    /\ l_pc = "create_index"
    /\ \/ /\ index_state' = create_index(index_state)
          /\ l_pc' = "load_data"
          /\ UNCHANGED l_exit
       \/ /\ index_state' \in {index_state,
                                IF index_state.exists THEN indices_delete(index_state)
                                                      ELSE index_state}
          /\ Exit("crashed")
    /\ UNCHANGED <<svcvars, reqvars, concvars, l_retries, documents>>

\* insert_data.py:198-201
LoadData ==
    /\ l_pc = "load_data"
    /\ \E file \in Files :
          /\ documents' = load_data(file)
          /\ IF documents' = <<>>
             THEN Exit("no_documents")
             ELSE l_pc' = "index_documents" /\ UNCHANGED l_exit
    /\ UNCHANGED <<svcvars, reqvars, concvars, l_retries, index_state>>

\* insert_data.py:203-205: index_documents logs its failures and returns;
\* of the prepared documents the bulk call indexes some, all or none
IndexDocuments ==
    /\ l_pc = "index_documents"
    /\ \E indexed \in SUBSET Prepared(documents) :
          index_state' = [index_state EXCEPT !.docs = indexed]
    /\ Exit("complete")
    /\ UNCHANGED <<svcvars, reqvars, concvars, l_retries, documents>>

NextLoader ==
    \/ LoaderStart
    \/ WaitPing
    \/ WaitGiveUp
    \/ CreateIndex
    \/ LoadData
    \/ IndexDocuments

SpecLoader == Init /\ [][NextLoader]_vars

(***************************************************************************)
(* Vocabulary of the properties, stated on the requests and replies        *)
(* themselves rather than through the operators of the code.               *)
(***************************************************************************)
ValidTypes == {"semantic", "keyword", "hybrid"}

\* the query is empty once surrounding whitespace is removed
IsBlank(q) == \A i \in DOMAIN q : q[i] = " "

\* the six fields a hit must carry
HasRequired(hit) ==
    {"id", "title", "subject", "description", "link", "teaser_image_url"}
        \subseteq DOMAIN hit.source
HasDate(hit) == "date" \in DOMAIN hit.source
WellFormed(hit) == HasRequired(hit) /\ HasDate(hit)
BadDate(hit) == HasDate(hit) /\ hit.source.date = PyStr("not-a-date")

AllHits(P(_)) == \A i \in 1..Len(hits) : P(hits[i])

\* the text of an id
IdText(x) == IF x.py = "int" THEN ToString(x.v) ELSE x.v

\* the Document carries the hit's fields (the date aside) and its score
SameFields(doc, hit) ==
    /\ doc.id = PyStr(IdText(hit.source.id))
    /\ doc.title = hit.source.title
    /\ doc.subject = hit.source.subject
    /\ doc.description = hit.source.description
    /\ doc.link = hit.source.link
    /\ doc.teaser_image_url = hit.source.teaser_image_url
    /\ doc.similarity_score = hit.score

\* _execute_search has returned
Searched == pc \in {"searched", "done"} /\ backend_outcome # "none"

(***************************************************************************)
(* C1.  A backend exception raised while the dispatched search runs is     *)
(* re-signaled as ElasticsearchQueryError (status 500), and the request    *)
(* never ends in a successful response.                                    *)
(***************************************************************************)
C1_BackendExceptionIsQueryError ==
    (pc = "done" /\ backend_outcome = "raised")
        => (error.cls = "ElasticsearchQueryError"
            /\ http.status_code = HTTP_500_INTERNAL_SERVER_ERROR)

(***************************************************************************)
(* C2.  When one hit of a reply lacks a required field, that hit is        *)
(* skipped and every well-formed hit of the reply is still returned, in    *)
(* order.                                                                  *)
(***************************************************************************)
C2_BadHitIsSkipped ==
    (Searched /\ backend_outcome = "ok" /\ AllHits(HasDate))
        => LET kept == SelectSeq(hits, HasRequired)
           IN  /\ Len(results) = Len(kept)
               /\ \A j \in 1..Len(kept) : SameFields(results[j], kept[j])

(***************************************************************************)
(* C3.  As claimed: whenever the backend is not ready, a dispatch with one *)
(* of the three strategies fails with ElasticsearchConnectionError and     *)
(* calls neither encode_query nor the backend search.                      *)
(***************************************************************************)
C3_NotReadyAlwaysUnavailable ==
    (es_client = None /\ request.search_type \in ValidTypes)
        => /\ encode_calls = 0
           /\ search_calls = 0
           /\ pc = "done" => error.cls = "ElasticsearchConnectionError"

(***************************************************************************)
(* C3, amended.  Whenever the backend is not ready, a dispatch with one of *)
(* the three strategies and a query that is not empty after trimming fails *)
(* with ElasticsearchConnectionError (status 503); on a not-ready service  *)
(* neither encode_query nor the backend search is ever called.             *)
(***************************************************************************)
C3_NotReadyUnavailable ==
    es_client = None
        => /\ encode_calls = 0
           /\ search_calls = 0
           /\ encode_outcome = "none"
           /\ backend_outcome = "none"
           /\ (pc = "done" /\ request.search_type \in ValidTypes
                   /\ ~IsBlank(request.query))
                 => /\ error.cls = "ElasticsearchConnectionError"
                    /\ http.status_code = HTTP_503_SERVICE_UNAVAILABLE

C3_Witness ==
    /\ pc = "done"
    /\ es_client = None
    /\ request.search_type = "semantic"
    /\ ~IsBlank(request.query)
    /\ error.cls = "ElasticsearchConnectionError"
    /\ encode_calls = 0

(***************************************************************************)
(* C4.  A request whose query is empty after trimming fails with           *)
(* EmptyQueryError (status 400) whatever its search_type and limit, and no *)
(* embedding or backend call is made for it.                               *)
(***************************************************************************)
C4_EmptyQuery ==
    (pc # "idle" /\ IsBlank(request.query))
        => /\ encode_calls = 0
           /\ search_calls = 0
           /\ pc \in {"received", "done"}
           /\ pc = "done"
                 => /\ error.cls = "EmptyQueryError"
                    /\ http.status_code = HTTP_400_BAD_REQUEST
                    /\ http.detail.error_code = "empty_query"

C4_Witness ==
    /\ pc = "done"
    /\ request.query = <<" ", " ">>
    /\ request.search_type = "bogus"
    /\ request.limit = MaxLimit
    /\ es_client = None
    /\ error.cls = "EmptyQueryError"

(***************************************************************************)
(* C5.  A request with a non-empty query and a search_type outside the     *)
(* three valid ones fails with InvalidSearchTypeError (status 400) whose   *)
(* context has the offending value under provided and exactly the three    *)
(* valid values under valid_types.                                         *)
(***************************************************************************)
C5_InvalidSearchType ==
    (pc \notin {"idle", "received", "query_checked"} /\ ~IsBlank(request.query)
        /\ request.search_type \notin ValidTypes)
        => /\ pc = "done"
           /\ error.cls = "InvalidSearchTypeError"
           /\ http.status_code = HTTP_400_BAD_REQUEST
           /\ "context" \in DOMAIN http.detail
           /\ http.detail.context.provided = request.search_type
           /\ Len(http.detail.context.valid_types) = 3
           /\ Range(http.detail.context.valid_types) = ValidTypes

C5_Witness ==
    /\ pc = "done"
    /\ request.search_type = "bogus"
    /\ ~IsBlank(request.query)
    /\ error.cls = "InvalidSearchTypeError"
    /\ http.detail.context.provided = "bogus"

C7_AtMostLimit ==
    /\ Searched => Len(results) <= request.limit
    /\ (pc = "done" /\ http.status_code = HTTP_200_OK)
          => Len(http.content.results) <= request.limit

C7_Witness ==
    /\ pc = "done"
    /\ request.search_type = "hybrid"
    /\ request.limit = 2
    /\ http.status_code = HTTP_200_OK
    /\ Len(http.content.results) = 2

(***************************************************************************)
(* C8.  Constructing a Document from a hit that lacks a required field     *)
(* fails with DataConversionError.                                         *)
(***************************************************************************)
C8_MissingFieldIsDataConversionError ==
    (failed_hit # 0 /\ ~HasRequired(hits[failed_hit]))
        => caught.cls = "DataConversionError"

(***************************************************************************)
(* C9.  A hit whose date string cannot be parsed is never fatal: it is     *)
(* kept in the results with the current time as its date, and the other    *)
(* fields and the score of that hit and of every other hit are those the   *)
(* backend sent.                                                           *)
(***************************************************************************)
C9_BadDateIsKept ==
    backend_outcome = "ok"
        => /\ failed_hit # 0 => ~(BadDate(hits[failed_hit]) /\ HasRequired(hits[failed_hit]))
           /\ failed_hit = 0 => Len(results) = hit_idx
           /\ \A j \in 1..Len(results) :
                 /\ SameFields(results[j], hits[j])
                 /\ BadDate(hits[j]) <=> results[j].date = Now

C9_Witness ==
    /\ pc = "done"
    /\ Len(hits) = 2
    /\ BadDate(hits[1])
    /\ ~BadDate(hits[2])
    /\ http.status_code = HTTP_200_OK
    /\ Len(http.content.results) = 2
    /\ http.content.results[1].date = Now
    /\ http.content.results[2].date # Now

(***************************************************************************)
(* C10.  If the embedding provider throws during a semantic or hybrid      *)
(* dispatch the request fails with EmbeddingGenerationError (status 500)   *)
(* and the backend search is never called for it; encode_query rejects a   *)
(* query that is empty after trimming with the same error.                 *)
(***************************************************************************)
C10_EmbeddingFailure ==
    /\ (encode_outcome = "raised"
           /\ request.search_type \in {"semantic", "hybrid"})
          => /\ pc = "done"
             /\ error.cls = "EmbeddingGenerationError"
             /\ http.status_code = HTTP_500_INTERNAL_SERVER_ERROR
             /\ search_calls = 0
             /\ backend_outcome = "none"
    /\ \A q \in Queries :
          IsBlank(q) => encode_query(q, FALSE).raised.cls = "EmbeddingGenerationError"

C10_Witness ==
    /\ pc = "done"
    /\ encode_outcome = "raised"
    /\ request.search_type = "hybrid"
    /\ error.cls = "EmbeddingGenerationError"
    /\ search_calls = 0

(***************************************************************************)
(* C11.  A successful dispatch returns a response whose search_type equals *)
(* the request's search_type, for semantic, keyword and hybrid, and is     *)
(* hybrid when the request omitted the field.                              *)
(***************************************************************************)
C11_SearchTypeEchoed ==
    (pc = "done" /\ http.status_code = HTTP_200_OK)
        => /\ http.content.search_type \in ValidTypes
           /\ http.content.search_type = request.search_type
           /\ raw_search_type # Omitted => http.content.search_type = raw_search_type
           /\ raw_search_type = Omitted => http.content.search_type = "hybrid"

C11_Witness ==
    /\ pc = "done"
    /\ http.status_code = HTTP_200_OK
    /\ raw_search_type = "keyword"
    /\ http.content.search_type = "keyword"
    /\ Len(http.content.results) = 2

(***************************************************************************)
(* C12.  When the backend is ready and answers with zero hits, dispatch    *)
(* succeeds for every strategy with results = [] and raises no error.      *)
(***************************************************************************)
C12_ZeroHitsSucceeds ==
    (pc = "done" /\ backend_outcome = "ok" /\ hits = <<>>)
        => /\ http.status_code = HTTP_200_OK
           /\ http.content.results = <<>>
           /\ error.cls = None
           /\ caught.cls = None

C12_Witness ==
    /\ pc = "done"
    /\ es_client # None
    /\ backend_outcome = "ok"
    /\ hits = <<>>
    /\ request.search_type = "semantic"
    /\ http.status_code = HTTP_200_OK
    /\ http.content.results = <<>>

(***************************************************************************)
(* C13.  An exception that is not a BaseError, raised inside dispatch, is  *)
(* reported as a generic internal error (status 500) whose body does not   *)
(* contain the exception's message.                                        *)
(***************************************************************************)
C13_UnexpectedNotEchoed ==
    (pc = "done" /\ unexpected.cls # None)
        => /\ http.status_code = HTTP_500_INTERNAL_SERVER_ERROR
           /\ \A i \in DOMAIN http_exception_body(http).detail :
                 http_exception_body(http).detail[i] # unexpected.msg

ExpectedStatus(cls) ==
    CASE cls = "ElasticsearchConnectionError" -> 503
      [] cls = "ElasticsearchQueryError" -> 500
      [] cls = "EmbeddingGenerationError" -> 500
      [] cls = "InvalidSearchTypeError" -> 400
      [] cls = "EmptyQueryError" -> 400

KindHasStatus(e, cls) ==
    /\ e.cls = cls
    /\ e.status_code = ExpectedStatus(cls)
    /\ e.error_code # ""

C15_StatusPerKind ==
    /\ \A cls \in {"ElasticsearchConnectionError", "ElasticsearchQueryError",
                    "EmbeddingGenerationError", "EmptyQueryError"} :
          \A d \in {NoDetail, <<"some message">>, <<"another ", "message">>} :
             /\ KindHasStatus(BaseError(cls, d, NoContext), cls)
             /\ KindHasStatus(BaseError(cls, d, [query |-> "a"]), cls)
    /\ \A st \in SearchTypeValues :
          KindHasStatus(InvalidSearchTypeError(st, SEARCH_TYPES), "InvalidSearchTypeError")
    /\ error.cls # None
          => /\ KindHasStatus(error, error.cls)
             /\ http.status_code = ExpectedStatus(error.cls)
             /\ http.detail.error_code = error.error_code

C15_Witness ==
    /\ pc = "done"
    /\ error.cls = "ElasticsearchConnectionError"
    /\ error.detail # ClassDetail("ElasticsearchConnectionError")
    /\ http.status_code = 503

(***************************************************************************)
(* C16.  Every Document a search returns has a string id, also when the    *)
(* backend stored the id as an integer, and has a similarity_score.        *)
(***************************************************************************)
IsSearchResult(doc) ==
    /\ doc.id.py = "str"
    /\ doc.similarity_score \in Int

C16_IdIsString ==
    /\ \A j \in 1..Len(results) : IsSearchResult(results[j])
    /\ (pc = "done" /\ http.status_code = HTTP_200_OK)
          => \A j \in 1..Len(http.content.results) :
                IsSearchResult(http.content.results[j])

C16_Witness ==
    /\ pc = "done"
    /\ http.status_code = HTTP_200_OK
    /\ Len(hits) = 1
    /\ "id" \in DOMAIN hits[1].source
    /\ hits[1].source.id = PyInt(1)
    /\ Len(http.content.results) = 1
    /\ http.content.results[1].id = PyStr("1")

(***************************************************************************)
(* C17.  The readiness probe answers 200 whenever the backend client is    *)
(* ready and 423 whenever it is not, and never changes the readiness.      *)
(***************************************************************************)
C17_ReadyProbe ==
    /\ [](probe.status_code # 0
            => probe.status_code = IF es_client # None THEN 200 ELSE 423)
    /\ [][probe' # probe
            => /\ es_client' = es_client
               /\ probe'.status_code = IF es_client # None THEN 200 ELSE 423]_vars

C17_Witness ==
    /\ es_client = None
    /\ probe.status_code = 423
    /\ probe.content.status = "not_ready"

(***************************************************************************)
(* C18.  A keyword dispatch never calls encode_query, never passes through *)
(* the embedding step and never ends in EmbeddingGenerationError.          *)
(***************************************************************************)
C18_KeywordNeverEmbeds ==
    request.search_type = "keyword"
        => /\ encode_calls = 0
           /\ "embedding" \notin Range(steps)
           /\ error.cls # "EmbeddingGenerationError"

(***************************************************************************)
(* C19.  Readiness is decided once, at construction: the service is ready  *)
(* iff the startup ping returned true without raising; afterwards no       *)
(* search, failed or not, and no readiness probe changes it, and the       *)
(* backend is never pinged again.                                          *)
(***************************************************************************)
C19_ReadinessFixedAtStartup ==
    /\ []((es_client # None) <=> (ping_outcome = "true"))
    /\ [](ping_calls = 1)
    /\ [][es_client' = es_client /\ ping_calls' = ping_calls]_vars

C19_Witness ==
    /\ pc = "done"
    /\ ping_outcome = "false"
    /\ es_client = None
    /\ error.cls = "ElasticsearchConnectionError"
    /\ probe.status_code = 423
    /\ ping_calls = 1

(***************************************************************************)
(* C20.  Within one dispatch the steps run in the order empty-query check, *)
(* search_type check, readiness check, embedding, query plan, backend      *)
(* call, normalization, return, each at most once; a failing step ends the *)
(* request in exactly one terminal failure state and no later step runs.   *)
(***************************************************************************)
StepOrder ==
    <<"empty_query_check", "search_type_check", "readiness_check", "embedding",
      "query_plan", "backend_call", "normalization", "return">>

StepPos(step) == CHOOSE i \in 1..Len(StepOrder) : StepOrder[i] = step

\* the steps so far respect the order, none repeated
StepsInOrder ==
    /\ \A i \in 1..Len(steps) : steps[i] \in Range(StepOrder)
    /\ \A i, j \in 1..Len(steps) : i < j => StepPos(steps[i]) < StepPos(steps[j])
    /\ encode_calls <= 1
    /\ search_calls <= 1

\* the step that failed, if one did
FailedStep ==
    CASE error.cls \in {"EmptyQueryError"} -> "empty_query_check"
      [] error.cls = "InvalidSearchTypeError" -> "search_type_check"
      [] error.cls = "ElasticsearchConnectionError" -> "readiness_check"
      [] encode_outcome = "raised" -> "embedding"
      [] backend_outcome = "raised" -> "backend_call"
      [] failed_hit # 0 -> "normalization"
      [] OTHER -> "none"

TerminalFailure(cls) ==
    CASE cls \in {"EmptyQueryError", "InvalidSearchTypeError"} -> "validation-failed"
      [] cls = "EmbeddingGenerationError" -> "embedding-failed"
      [] cls = "ElasticsearchConnectionError" -> "backend-unavailable"
      [] cls = "ElasticsearchQueryError" -> "backend-query-failed"
      [] OTHER -> "none"

C20_StrictOrderAndFailure ==
    /\ StepsInOrder
    /\ FailedStep # "none"
          => /\ steps # <<>>
             /\ steps[Len(steps)] = FailedStep
             /\ pc = "done" => /\ TerminalFailure(error.cls) # "none"
                               /\ http.status_code # HTTP_200_OK

(***************************************************************************)
(* C21.  The hybrid plan is a bool query whose should list has exactly two *)
(* clauses, one multi_match clause and one knn clause; the knn clause      *)
(* always asks for k = 50 whatever the limit, from a pool of 100           *)
(* candidates with boost 2, and the plan's size is the requested limit.    *)
(***************************************************************************)
\* the plan of the request has been built
PlanBuilt == request.search_type \in ValidTypes /\ "source" \in DOMAIN query_body

C21_HybridPlan ==
    (PlanBuilt /\ request.search_type = "hybrid")
        => /\ DOMAIN query_body = {"source", "size", "query"}
           /\ DOMAIN query_body.query = {"bool"}
           /\ DOMAIN query_body.query.bool = {"should"}
           /\ LET should == query_body.query.bool.should
              IN  /\ Len(should) = 2
                  /\ DOMAIN should[1] = {"multi_match"}
                  /\ should[1].multi_match.query = request.query
                  /\ DOMAIN should[2] = {"knn"}
                  /\ should[2].knn.k = 50
                  /\ should[2].knn.num_candidates = 100
                  /\ should[2].knn.boost = 2
                  /\ should[2].knn.field = "content_vector"
           /\ query_body.size = request.limit

C21_Witness ==
    /\ pc = "done"
    /\ request.search_type = "hybrid"
    /\ request.limit = MaxLimit
    /\ search_calls = 1
    /\ query_body.size = MaxLimit
    /\ query_body.query.bool.should[2].knn.k = 50

(***************************************************************************)
(* C22.  The semantic plan is a knn lookup on the dense vector field whose *)
(* query_vector is the query embedding, with k equal to the requested      *)
(* limit and a pool of 100 candidates; hence for every valid limit         *)
(* (1..100) the plan has k <= num_candidates.                              *)
(***************************************************************************)
\* the limits QueryRequest accepts (ge=1, le=100)
ValidLimits == 1..100

C22_SemanticPlan ==
    /\ (PlanBuilt /\ request.search_type = "semantic")
          => /\ DOMAIN query_body = {"source", "size", "knn"}
             /\ query_body.knn.field = "content_vector"
             /\ query_body.knn.query_vector = query_embedding
             /\ query_embedding = <<"vec", request.query>>
             /\ query_body.knn.k = request.limit
             /\ query_body.knn.num_candidates = 100
             /\ query_body.size = request.limit
    /\ \A k \in ValidLimits :
          LET plan == BodyFor(QueryRequest(<<"a">>, k, "semantic"), <<"vec", <<"a">>>>)
          IN  /\ plan.knn.k = k
              /\ plan.knn.k <= plan.knn.num_candidates

C22_Witness ==
    /\ pc = "done"
    /\ request.search_type = "semantic"
    /\ request.limit = MaxLimit
    /\ search_calls = 1
    /\ query_body.knn.k = MaxLimit
    /\ query_body.knn.query_vector = query_embedding

(***************************************************************************)
(* C23.  The keyword plan is a single multi_match over title weighted 3,   *)
(* subject weighted 2 and description weighted 1, with operator OR and     *)
(* minimum_should_match 50%, carrying the request's query text unchanged,  *)
(* with size equal to the requested limit; it is sent to the backend       *)
(* exactly once, with the configured index.                                *)
(***************************************************************************)
C23_KeywordPlan ==
    (PlanBuilt /\ request.search_type = "keyword")
        => /\ DOMAIN query_body = {"source", "size", "query"}
           /\ DOMAIN query_body.query = {"multi_match"}
           /\ LET mm == query_body.query.multi_match
              IN  /\ mm.fields = <<<<"title", 3>>, <<"subject", 2>>, <<"description", 1>>>>
                  /\ mm.operator = "OR"
                  /\ mm.minimum_should_match = "50%"
                  /\ mm.query = request.query
           /\ query_body.size = request.limit
           /\ search_calls = 1
           /\ sent_index = es_index
           /\ es_index = "statistics"

C23_Witness ==
    /\ pc = "done"
    /\ request.search_type = "keyword"
    /\ request.query = <<" ", "a">>
    /\ search_calls = 1
    /\ sent_index = "statistics"
    /\ http.status_code = HTTP_200_OK
    /\ query_body.query.multi_match.query = <<" ", "a">>

(***************************************************************************)
(* C24.  Dispatch mutates no shared state: for any interleaving of         *)
(* concurrent requests the service fields (es_client, es_index, embedding  *)
(* model) are unchanged, and each response's query, search_type and        *)
(* results depend only on that request and on the backend's reply to it,   *)
(* never on another request in flight.                                     *)
(***************************************************************************)
\* the results a reply yields by itself: one document per hit when all its
\* hits are well-formed, none otherwise
ResultsOfReply(rs, reply) ==
    IF reply.outcome = "ok" /\ \A i \in 1..Len(reply.hits) : WellFormed(reply.hits[i])
    THEN /\ Len(rs) = Len(reply.hits)
         /\ \A i \in 1..Len(rs) : SameFields(rs[i], reply.hits[i])
    ELSE rs = <<>>

\* the response of the thread w is made of its own request and reply
ResponseIsOwn(w) ==
    /\ (w_http[w].status_code = HTTP_400_BAD_REQUEST) = IsBlank(w_request[w].query)
    /\ w_http[w].status_code = HTTP_200_OK
          => /\ w_http[w].content.query = w_request[w].query
             /\ w_http[w].content.search_type = w_request[w].search_type
             /\ ResultsOfReply(w_http[w].content.results, w_reply[w])

C24_NoSharedState ==
    /\ [](\A w \in 1..NumWorkers : w_pc[w] = "done" => ResponseIsOwn(w))
    /\ [][es_client' = es_client /\ es_index' = es_index
            /\ embedding_model' = embedding_model]_vars

C24_Witness ==
    /\ w_pc[1] = "done"
    /\ w_http[1].status_code = HTTP_200_OK
    /\ w_http[1].content.results # <<>>
    /\ w_pc[2] = "replied"
    /\ w_request[2] # w_request[1]
    /\ w_reply[2] # w_reply[1]

FreshAndEmpty == index_state.exists /\ index_state.fresh /\ index_state.docs = {}

C26_IndexReplacedBeforeLoad ==
    /\ l_pc = "load_data" => FreshAndEmpty
    /\ l_exit = "no_documents" => FreshAndEmpty /\ documents = <<>>
    /\ (l_pc = "index_documents" \/ documents # <<>> \/ l_exit = "complete")
          => index_state.exists /\ index_state.fresh
    /\ (index_state.exists /\ index_state.fresh) => index_state.docs \cap OldDocs = {}

C26_Witness ==
    /\ l_pc = "exited"
    /\ l_exit = "no_documents"
    /\ index_state.lost = OldDocs
    /\ index_state.exists
    /\ index_state.docs = {}

====
